---- MODULE Spec2Model ----
(***************************************************************************)
(* Model of DNA_mod_site/create_mod_staticsite_sql.py: one run of the      *)
(* static-site generator.  The database file is copied, one page is        *)
(* written per row of the joined modification table, then the homepage is  *)
(* built, which flattens the "derived-from" ontology of the verified       *)
(* modifications into nested lists                                         *)
(* (cons_nested_verified_dict_modbase_hierarchy).                          *)
(***************************************************************************)
EXTENDS Integers, Sequences, FiniteSets, TLC

VARIABLES
    pc,                 \* position of the run in the script
    origDb,             \* content of DATABASE_FILE_FULLPATH
    copyDb,             \* content of DATABASE_FILE_COPY, or NoFile
    temp,               \* the TEMP table of the in-memory database
    baseIdx,            \* create_html_pages: index of BASE in BASES
    cursor,             \* create_html_pages: rows of `mods` not yet fetched
    links,              \* create_html_pages: links of the current BASE
    blacklist,          \* create_html_pages: blacklist of the current BASE
    homepage_links,     \* create_html_pages: dictionary of link lists
    v_base_origins,     \* create_html_pages: dictionary ChEBI id -> origin
    htmlFiles,          \* files of HTML_FILES_DIR: file name -> what it holds
    imageFiles,         \* names of the images in site_image_dir
    stderr,             \* warnings printed to sys.stderr
    verifiedBases,      \* create_homepage: verified links by base
    unverifiedBases,    \* create_homepage: unverified links by base
    conn,               \* create_homepage: the file the connection is open on
    rootIDs,            \* verified_root_base_IDs_by_unmod_base
    keysLeft,           \* keys of rootIDs the outer loop has not visited
    unmod_parent,       \* current key of the outer loop ("" outside it)
    rootsLeft,          \* roots of the current key not yet visited
    mod_base,           \* current root ("" outside the inner loop)
    modbase_hierarchy,  \* result of get_modbase_hierarchy for mod_base
    seen_children,      \* dictionary parent -> nested list of its children
    verified_full_hierarchy_dict  \* the dictionary under construction

vars == <<pc, origDb, copyDb, temp, baseIdx, cursor, links, blacklist,
          homepage_links, v_base_origins, htmlFiles, imageFiles, stderr,
          verifiedBases, unverifiedBases, conn, rootIDs, keysLeft, unmod_parent,
          rootsLeft, mod_base, modbase_hierarchy, seen_children,
          verified_full_hierarchy_dict>>

pageVars == <<temp, baseIdx, cursor, links, blacklist, homepage_links,
              v_base_origins, htmlFiles, imageFiles, stderr>>
homeVars == <<verifiedBases, unverifiedBases, conn>>
hierVars == <<rootIDs, keysLeft, unmod_parent, rootsLeft, mod_base,
              modbase_hierarchy, seen_children, verified_full_hierarchy_dict>>

---------------------------------------------------------------------------
(* Bounds of the model.                                                    *)

\* modifications in the databases of Spec
MaxRows == 2
\* modifications in the databases of SpecPages
MaxPageRows == 2
\* modifications, rows of modbase_parents and unverified modifications in
\* the databases of SpecHier
MaxMods == 4
MaxParents == 4
MaxUnverified == 1
\* modifications and rows of modbase_parents in the databases of SpecDag
DagMods == 5
DagParents == 5
\* modifications in the databases of SpecLinks
MaxLinkRows == 2

---------------------------------------------------------------------------
(* Program constants.                                                      *)

BASES == <<"Adenine", "Cytosine", "Guanine", "Thymine", "Uracil", "Other">>
VERIFIED_BASES == <<"Adenine", "Cytosine", "Guanine", "Thymine", "Other">>

\* BASE[0]: the first character of a name of BASES
BaseInitial(BASE) ==
    CASE BASE = "Adenine" -> "A" [] BASE = "Cytosine" -> "C"
      [] BASE = "Guanine" -> "G" [] BASE = "Thymine" -> "T"
      [] BASE = "Uracil" -> "U" [] BASE = "Other" -> "O"

\* the keys of BASE_DICT: the common names the base table may hold
BASE_DICT_KEYS == {"adenine", "thymine", "cytosine", "guanine", "uracil", "other"}

\* table base: baseid -> commonname (ParentLink=BASE_DICT[commonname]
\* requires every commonname to be a key of BASE_DICT)
BaseTable ==
    [b \in {"A", "C", "G", "T", "U", "O"} |->
        CASE b = "A" -> "adenine" [] b = "C" -> "cytosine"
          [] b = "G" -> "guanine" [] b = "T" -> "thymine"
          [] b = "U" -> "uracil" [] b = "O" -> "other"]

\* unmod_key[:1].upper()
FirstUpper(name) ==
    CASE name = "adenine" -> "A" [] name = "cytosine" -> "C"
      [] name = "guanine" -> "G" [] name = "thymine" -> "T"
      [] name = "uracil" -> "U" [] name = "other" -> "O"

\* dnamod_utils.UNMOD_ALPH: the alphabet of the unmodified bases
UNMOD_ALPH == {"A", "C", "G", "T"}

\* identifiers (ChEBI ids) and names (ChEBI names) of the modifications
AllIds == <<"m1", "m2", "m3", "m4", "m5", "m6", "m7", "m8">>
AllNames == <<"a", "B", "c", "D", "e", "F", "g", "H">>
IdAt(i) == AllIds[i]
IdIndex(m) == CHOOSE i \in 1..Len(AllIds) : AllIds[i] = m

\* the two database files (lines 68-69)
DATABASE_FILE_FULLPATH == "database"
DATABASE_FILE_COPY == "database_copy"

NoFile == [absent |-> TRUE]

\* an empty Python dictionary
EmptyDict == [k \in {} |-> <<>>]

\* d[key] = val
SetItem(d, key, val) ==
    [k \in DOMAIN d \cup {key} |-> IF k = key THEN val ELSE d[k]]

---------------------------------------------------------------------------
(* Sequences.                                                              *)

Range(s) == {s[i] : i \in 1..Len(s)}

RECURSIVE Flatten(_)
\* the concatenation of a sequence of sequences
Flatten(ss) == IF ss = <<>> THEN <<>> ELSE Head(ss) \o Flatten(Tail(ss))

\* k copies of x
Rep(x, k) == [i \in 1..k |-> x]

\* the last element of a non-empty sequence: s[-1]
Last(s) == s[Len(s)]

---------------------------------------------------------------------------
(* Python values of the nesting: a string (an id) or a list of values.     *)

Str(c) == [list |-> FALSE, id |-> c, elems |-> <<>>]
List(s) == [list |-> TRUE, id |-> "", elems |-> s]

\* is_list(object)
is_list(v) == v.list

RECURSIVE IdsIn(_)
\* every id that occurs in a value, at any nesting level
IdsIn(v) ==
    IF ~v.list THEN {v.id}
    ELSE UNION {IdsIn(v.elems[i]) : i \in 1..Len(v.elems)}

\* every id that occurs in a list of values
IdsOf(s) == UNION {IdsIn(s[i]) : i \in 1..Len(s)}
---------------------------------------------------------------------------
(* The database.  A database content is a record: modbase maps the id of   *)
(* each modification to its row of the joined tables (verifiedstatus,      *)
(* baseid, chebiname, smiles, and the Origin of its nature annotation,     *)
(* "none" without one); modbase_parents is the set of the rows             *)
(* <<nameid, parentid>> of that table.                                     *)

\* SELECT nameid FROM modbase WHERE verifiedstatus=1
VerifiedIds(db) ==
    {m \in DOMAIN db.modbase : db.modbase[m].verifiedstatus = 1}

RECURSIVE SumF(_, _)
\* the sum of f over S
SumF(f, S) ==
    IF S = {} THEN 0
    ELSE LET x == CHOOSE y \in S : TRUE IN f[x] + SumF(f, S \ {x})

\* the names in either column of modbase_parents
NamesOf(P) == {r[1] : r \in P} \cup {r[2] : r \in P}

\* the anchor of the recursive query: per name, the number of rows
\* SELECT nameid ... FROM modbase_parents WHERE parentid=:bID
AnchorRows(P, bID) ==
    [n \in NamesOf(P) |-> IF <<n, bID>> \in P THEN 1 ELSE 0]

\* one step of the recursion: per name n, the number of rows of b joined
\* to a row of the level before on b.parentid = nameid
JoinRows(P, lv) ==
    [n \in NamesOf(P) |->
        LET pars == {r[2] : r \in {q \in P : q[1] = n}}
        IN SumF([p \in pars |-> lv[p]], pars)]

RECURSIVE Levels(_, _, _)
Levels(P, lv, k) ==
    IF k = 0 THEN <<lv>> ELSE <<lv>> \o Levels(P, JoinRows(P, lv), k - 1)

\* WITH RECURSIVE base_children: element d + 1 gives, per name, the number
\* of its rows at depth d (UNION ALL keeps one row per path from the
\* queried base; a path of an acyclic table uses each row at most once)
base_children(P, bID) == Levels(P, AnchorRows(P, bID), Cardinality(P))

\* the number of rows (depth d, prevpar g, nameid n) of the CTE hierarchy
HierarchyRows(P, bc, d, g, n) ==
    IF d = 0
    THEN IF g = "" THEN bc[1][n] ELSE 0
    ELSE IF <<n, g>> \in P THEN bc[d][g] ELSE 0

\* the depths at which name n is a row of base_children
DepthsOf(bc, n) == {d \in 0..(Len(bc) - 1) : bc[d + 1][n] > 0}

\* the query without its WHERE clause: every modification passes
NoFilter(db) == DOMAIN db.modbase

\* WHERE nameid IN (select nameid FROM modbase WHERE verifiedstatus=1)
VerifiedFilter(db) == VerifiedIds(db)

\* the depths of the rows of the group of prevpar g that pass the filter
GroupDepths(P, bc, V, g) ==
    {d \in 0..(Len(bc) - 1) :
        \E n \in V \cap NamesOf(P) : HierarchyRows(P, bc, d, g, n) > 0}

\* GROUP_CONCAT(nameid) followed by split(','): the nameids of the rows of
\* the group of g that pass the filter.  SQL leaves the order of the
\* concatenation open and nothing in the function depends on it; the rows
\* are taken by depth and then by id.
GroupChildren(P, bc, V, g) ==
    LET ofId(d, i) ==
            IF IdAt(i) \in V \cap NamesOf(P)
            THEN Rep(IdAt(i), HierarchyRows(P, bc, d, g, IdAt(i)))
            ELSE <<>>
    IN Flatten([k \in 1..Len(bc) |->
                  Flatten([i \in 1..Len(AllIds) |-> ofId(k - 1, i)])])

RECURSIVE OrdersAscending(_, _, _)
\* ORDER BY depth ASC
OrdersAscending(G, D, low) ==
    IF G = {} THEN {<<>>}
    ELSE LET cand == UNION {{<<g, d>> : d \in {e \in D[g] : e >= low}} : g \in G}
         IN UNION {{<<c[1]>> \o s : s \in OrdersAscending(G \ {c[1]}, D, c[2])} :
                     c \in cand}

RECURSIVE Orders(_, _, _)
\* ORDER BY depth DESC: every arrangement of the groups G in which the
\* depths do not increase.  depth is a bare column of an aggregate query,
\* so SQLite takes it from an arbitrary row of the group (D[g] holds the
\* depths of the rows of g), and the order among equal depths is open.
\* `low` is the depth of the group that follows.
Orders(G, D, low) ==
    IF G = {} THEN {<<>>}
    ELSE LET cand == UNION {{<<g, d>> : d \in {e \in D[g] : e >= low}} : g \in G}
         IN UNION {{Append(s, c[1]) : s \in Orders(G \ {c[1]}, D, c[2])} :
                     c \in cand}

\* get_modbase_hierarchy(cursor, base_id): the results the query can
\* return, each a list of [prevpar, children]
get_modbase_hierarchy(db, base_id) ==
    LET P == db.modbase_parents
        bc == base_children(P, base_id)
        V == VerifiedFilter(db)
        D == [g \in {""} \cup NamesOf(P) |-> GroupDepths(P, bc, V, g)]
        G == {g \in DOMAIN D : D[g] # {}}
        C == [g \in G |-> GroupChildren(P, bc, V, g)]
    IN {[i \in 1..Len(o) |-> [parent |-> o[i], children |-> C[o[i]]]] :
          o \in Orders(G, D, 0)}
---------------------------------------------------------------------------
(* Module level and create_html_pages                                      *)

\* 'Unverified' + BASE
UnverifiedKey(BASE) ==
    CASE BASE = "Adenine" -> "UnverifiedAdenine"
      [] BASE = "Cytosine" -> "UnverifiedCytosine"
      [] BASE = "Guanine" -> "UnverifiedGuanine"
      [] BASE = "Thymine" -> "UnverifiedThymine"
      [] BASE = "Uracil" -> "UnverifiedUracil"
      [] BASE = "Other" -> "UnverifiedOther"

\* smiles[1:-1]: the stored value without its quotes
StripQuotes(q) == CASE q = "''" -> "" [] q = "'C'" -> "C"

\* the name itself as the key: upper-case letters sort before lower-case
\* ones
CaseSensitiveKey(name) ==
    LET i == CHOOSE k \in 1..Len(AllNames) : AllNames[k] = name
    IN IF i % 2 = 0 THEN i ELSE i + Len(AllNames)

\* s.lower(), as its place in the order of the lower-case names; the names
\* of AllNames are in alphabetical order when case is ignored
LowerKey(name) == CHOOSE i \in 1..Len(AllNames) : AllNames[i] = name

RECURSIVE InsertSorted(_, _)
\* x put into the sorted list s, after the elements whose key is not larger
InsertSorted(s, x) ==
    IF s = <<>> THEN <<x>>
    ELSE IF LowerKey(Head(s)) <= LowerKey(x)
         THEN <<Head(s)>> \o InsertSorted(Tail(s), x)
         ELSE <<x>> \o s

RECURSIVE sorted(_)
\* sorted(s, key=lambda s: s.lower()): a stable sort
sorted(s) ==
    IF s = <<>> THEN <<>>
    ELSE InsertSorted(sorted(SubSeq(s, 1, Len(s) - 1)), s[Len(s)])

\* the exceptions that stop the script
Exceptions == {"AssertionError", "IndexError", "ValueError"}

\* line 86: shutil.copy2(DATABASE_FILE_FULLPATH, DATABASE_FILE_COPY)
CopyDatabase ==
    /\ pc = "start"
    /\ copyDb' = origDb
    /\ pc' = "attach"
    /\ UNCHANGED <<origDb, pageVars, homeVars, hierVars>>

\* the rows of the natural join of modbase, baseprops, covmod, names, base
JoinedRows(db) == db.modbase

\* lines 285-303: connect to ':memory:', ATTACH the copy as db, and
\* CREATE TEMP TABLE temp from the joined tables of db
AttachAndJoin ==
    /\ pc = "attach"
    /\ copyDb # NoFile
    /\ temp' = JoinedRows(copyDb)
    /\ baseIdx' = 1
    /\ pc' = "base"
    /\ UNCHANGED <<origDb, copyDb, cursor, links, blacklist, homepage_links,
                   v_base_origins, htmlFiles, imageFiles, stderr, homeVars,
                   hierVars>>

\* the next BASE with links and blacklist carried over from the BASE before
SelectModsKeepingLinks ==
    /\ pc = "base"
    /\ baseIdx <= Len(BASES)
    /\ cursor' = {m \in DOMAIN temp : temp[m].baseid = BaseInitial(BASES[baseIdx])}
    /\ pc' = "mods"
    /\ UNCHANGED <<origDb, copyDb, temp, baseIdx, links, blacklist,
                   homepage_links, v_base_origins, htmlFiles, imageFiles,
                   stderr, homeVars, hierVars>>

\* lines 305-311: the next BASE of BASES; SELECT * FROM temp WHERE baseid = ?
SelectMods ==
    /\ pc = "base"
    /\ baseIdx <= Len(BASES)
    /\ links' = <<>>
    /\ blacklist' = <<>>
    /\ cursor' = {m \in DOMAIN temp : temp[m].baseid = BaseInitial(BASES[baseIdx])}
    /\ pc' = "mods"
    /\ UNCHANGED <<origDb, copyDb, temp, baseIdx, homepage_links, v_base_origins,
                   htmlFiles, imageFiles, stderr, homeVars, hierVars>>

\* lines 105-132, render_image(smiles, name): what the call leaves.
\* `created` says whether mol.write left a file at image_path; without the
\* file the warning is printed, image_path is None, and os.path.relpath
\* raises on it.
render_image(smiles, name, created) ==
    IF smiles = ""
    THEN [raises |-> FALSE, image |-> FALSE, file |-> {}, warning |-> <<>>]
    ELSE IF created
         THEN [raises |-> FALSE, image |-> TRUE, file |-> {name}, warning |-> <<>>]
         ELSE [raises |-> TRUE, image |-> FALSE, file |-> {}, warning |-> <<name>>]

\* lines 376-384: v_base_origins after the nature annotation of chebiid
RecordOrigin(origins, chebiid, mod) ==
    IF mod.origin # "none" THEN SetItem(origins, chebiid, mod.origin) ELSE origins

\* lines 313-435, the body of the loop over mods for one row: the image is
\* rendered, the page is written to chebiname + '.html', the origin of an
\* annotated modification is recorded and the link is filed by mod[5]
CreatePage ==
    /\ pc = "mods"
    /\ \E chebiid \in cursor, created \in BOOLEAN :
         LET mod == temp[chebiid]
             img == render_image(StripQuotes(mod.smiles), mod.chebiname, created)
         IN /\ cursor' = cursor \ {chebiid}
            /\ imageFiles' = imageFiles \cup img.file
            /\ stderr' = stderr \o img.warning
            /\ IF img.raises
               THEN /\ pc' = "ValueError"
                    /\ UNCHANGED <<htmlFiles, v_base_origins, links, blacklist>>
               ELSE /\ pc' = "mods"
                    /\ htmlFiles' = SetItem(htmlFiles, mod.chebiname,
                                            [ChebiId |-> chebiid, Image |-> img.image])
                    /\ v_base_origins' = RecordOrigin(v_base_origins, chebiid, mod)
                    /\ IF mod.verifiedstatus = 1
                       THEN links' = Append(links, mod.chebiname) /\ UNCHANGED blacklist
                       ELSE blacklist' = Append(blacklist, mod.chebiname) /\ UNCHANGED links
    /\ UNCHANGED <<origDb, copyDb, temp, baseIdx, homepage_links, homeVars, hierVars>>

\* lines 437-441: the sorted lists of the BASE are stored
FinishBase ==
    /\ pc = "mods"
    /\ cursor = {}
    /\ homepage_links' =
          SetItem(SetItem(homepage_links, BASES[baseIdx], sorted(links)),
                  UnverifiedKey(BASES[baseIdx]), sorted(blacklist))
    /\ links' = sorted(links)
    /\ blacklist' = sorted(blacklist)
    /\ baseIdx' = baseIdx + 1
    /\ pc' = "base"
    /\ UNCHANGED <<origDb, copyDb, temp, cursor, v_base_origins, htmlFiles,
                   imageFiles, stderr, homeVars, hierVars>>

\* line 443: return (homepage_links, v_base_origins)
ReturnPages ==
    /\ pc = "base"
    /\ baseIdx > Len(BASES)
    /\ pc' = "homepage"
    /\ UNCHANGED <<origDb, copyDb, pageVars, homeVars, hierVars>>

---------------------------------------------------------------------------
(* create_homepage                                                         *)

\* lines 655-658: the two dictionaries keyed by the names of BASES
LinksByBase(hl, unverified) ==
    [base \in Range(BASES) |->
        IF unverified THEN hl[UnverifiedKey(base)] ELSE hl[base]]

\* the fold with the links of Uracil put before those of Thymine
UracilBeforeThymine(vb) ==
    [base \in DOMAIN vb \ {"Uracil"} |->
        IF base = "Thymine" THEN vb["Uracil"] \o vb["Thymine"] ELSE vb[base]]

\* lines 660-662: Thymine takes the links of Uracil, whose key is deleted
FoldUracil(vb) ==
    [base \in DOMAIN vb \ {"Uracil"} |->
        IF base = "Thymine" THEN vb["Thymine"] \o vb["Uracil"] ELSE vb[base]]

\* a connection opened on the source database instead
ConnectToSource == DATABASE_FILE_FULLPATH

\* line 649: sqlite3.connect(DATABASE_FILE_COPY)
HomepageDatabase == DATABASE_FILE_COPY

\* the content of the file the connection of create_homepage is open on
ConnDb == IF conn = DATABASE_FILE_COPY THEN copyDb ELSE origDb

\* a statement on that connection that leaves modbase_parents as P, and
\* its commit
CommitParents(P) ==
    IF conn = DATABASE_FILE_COPY
    THEN copyDb' = [copyDb EXCEPT !.modbase_parents = P] /\ UNCHANGED origDb
    ELSE origDb' = [origDb EXCEPT !.modbase_parents = P] /\ UNCHANGED copyDb

\* lines 649-662: connect to the copy and build the link dictionaries
ConnectAndFold ==
    /\ pc = "homepage"
    /\ copyDb # NoFile
    /\ conn' = HomepageDatabase
    /\ verifiedBases' = FoldUracil(LinksByBase(homepage_links, FALSE))
    /\ unverifiedBases' = LinksByBase(homepage_links, TRUE)
    /\ pc' = "roots"
    /\ UNCHANGED <<origDb, copyDb, pageVars, hierVars>>

\* lines 667-699: index.html is rendered and written
WriteIndex ==
    /\ pc = "index"
    /\ htmlFiles' = SetItem(htmlFiles, "index", [ChebiId |-> "", Image |-> FALSE])
    /\ pc' = "done"
    /\ UNCHANGED <<origDb, copyDb, temp, baseIdx, cursor, links, blacklist,
                   homepage_links, v_base_origins, imageFiles, stderr, homeVars,
                   hierVars>>

\* an exit at which no handler is registered: the copy stays
ExitWithoutHandler ==
    /\ pc \in {"done"} \cup Exceptions
    /\ pc' = "exited"
    /\ UNCHANGED <<origDb, copyDb, pageVars, homeVars, hierVars>>

\* lines 89-96, _exit_handler at interpreter exit, after the script ended or
\* an exception stopped it: os.remove of the copy, OSError swallowed
ExitHandler ==
    /\ pc \in {"done"} \cup Exceptions
    /\ copyDb' = NoFile
    /\ pc' = "exited"
    /\ UNCHANGED <<origDb, pageVars, homeVars, hierVars>>

---------------------------------------------------------------------------
(* cons_nested_verified_dict_modbase_hierarchy                             *)

\* the subquery without the test of the parent's status: the modifications
\* with a parent
HasAnyParent(db) ==
    {r[1] : r \in {q \in db.modbase_parents : q[1] \in DOMAIN db.modbase}}

\* the subquery of the root query: the modifications with a verified parent
HasVerifiedParent(db) ==
    {r[1] : r \in {q \in db.modbase_parents :
                      q[1] \in DOMAIN db.modbase /\ q[2] \in VerifiedIds(db)}}

\* the nameids the root query selects: verified, joined to a row of base,
\* and not among the modifications with a verified parent
RootIds(db) ==
    {m \in VerifiedIds(db) :
        db.modbase[m].baseid \in DOMAIN BaseTable /\ m \notin HasVerifiedParent(db)}

\* the common name the root query returns beside nameid m
CommonName(db, m) == BaseTable[db.modbase[m].baseid]

\* the place of a common name in ORDER BY commonname
CommonRank(name) ==
    CASE name = "adenine" -> 1 [] name = "cytosine" -> 2
      [] name = "guanine" -> 3 [] name = "other" -> 4
      [] name = "thymine" -> 5 [] name = "uracil" -> 6

RECURSIVE Arrangements(_)
\* the sequences that hold each element of S once
Arrangements(S) ==
    IF S = {} THEN {<<>>}
    ELSE UNION {{<<x>> \o s : s \in Arrangements(S \ {x})} : x \in S}

\* the row orders the root query can return: ORDER BY commonname, the order
\* of the rows of one common name being open
RootRows(db) ==
    {s \in Arrangements(RootIds(db)) :
        \A i, j \in 1..Len(s) :
            i < j => CommonRank(CommonName(db, s[i])) <= CommonRank(CommonName(db, s[j]))}

\* 'uracil' in unmod_key.lower() -> 'thymine'
UnmodKey(name) == IF name = "uracil" THEN "thymine" ELSE name

\* assert unmod_key[:1].upper() in dnamod_utils.UNMOD_ALPH
KeyAssertion(key) == FirstUpper(key) \in UNMOD_ALPH

\* s without its elements that fail the test
RECURSIVE SelectIds(_, _, _)
SelectIds(s, db, key) ==
    IF s = <<>> THEN <<>>
    ELSE IF UnmodKey(CommonName(db, Head(s))) = key
         THEN <<Head(s)>> \o SelectIds(Tail(s), db, key)
         ELSE SelectIds(Tail(s), db, key)

\* verified_root_base_IDs_by_unmod_base for the rows `rows` of the root query
RootsByUnmodBase(db, rows) ==
    [key \in {UnmodKey(CommonName(db, rows[i])) : i \in 1..Len(rows)} |->
        SelectIds(rows, db, key)]

\* lines 506-548: the root query and the grouping of its rows by key; the
\* run stops with AssertionError at the first row whose key fails the
\* assertion
RootQuery ==
    /\ pc = "roots"
    /\ \E rows \in RootRows(ConnDb) :
         IF \A i \in 1..Len(rows) : KeyAssertion(UnmodKey(CommonName(ConnDb, rows[i])))
         THEN /\ rootIDs' = RootsByUnmodBase(ConnDb, rows)
              /\ keysLeft' = DOMAIN rootIDs'
              /\ pc' = "loop"
         ELSE /\ pc' = "AssertionError"
              /\ UNCHANGED <<rootIDs, keysLeft>>
    /\ seen_children' = EmptyDict
    /\ verified_full_hierarchy_dict' = EmptyDict
    /\ UNCHANGED <<origDb, copyDb, pageVars, homeVars, unmod_parent, rootsLeft,
                   mod_base, modbase_hierarchy>>

\* the table modbase_parents the INSERT of line 556 leaves
InsertRow(P, nameid, parentid) == P \cup {<<nameid, parentid>>}

\* a DELETE whose WHERE clause matches no row
DeleteNothing(P, nameid, parentid) == P

\* the table modbase_parents the DELETE of line 563 leaves
DeleteRow(P, nameid, parentid) == P \ {<<nameid, parentid>>}

\* lines 550-558: the loops fetch the next root; INSERT INTO modbase_parents
\* on the connection of create_homepage, which is open on the copy
InsertParent ==
    /\ pc = "loop"
    /\ \/ /\ rootsLeft # <<>>
          /\ mod_base' = Head(rootsLeft)
          /\ rootsLeft' = Tail(rootsLeft)
          /\ UNCHANGED <<unmod_parent, keysLeft>>
       \/ /\ rootsLeft = <<>>
          /\ \E key \in keysLeft :
               /\ unmod_parent' = key
               /\ keysLeft' = keysLeft \ {key}
               /\ mod_base' = Head(rootIDs[key])
               /\ rootsLeft' = Tail(rootIDs[key])
    /\ CommitParents(InsertRow(ConnDb.modbase_parents, mod_base', unmod_parent'))
    /\ pc' = "query"
    /\ UNCHANGED <<pageVars, homeVars, rootIDs, modbase_hierarchy,
                   seen_children, verified_full_hierarchy_dict>>

\* lines 560-561: hier_query_base = unmod_parent; get_modbase_hierarchy
QueryHierarchy ==
    /\ pc = "query"
    /\ modbase_hierarchy' \in get_modbase_hierarchy(ConnDb, unmod_parent)
    /\ pc' = "delete"
    /\ UNCHANGED <<origDb, copyDb, pageVars, homeVars, rootIDs, keysLeft,
                   unmod_parent, rootsLeft, mod_base, seen_children,
                   verified_full_hierarchy_dict>>

\* lines 563-566: DELETE FROM modbase_parents
DeleteParent ==
    /\ pc = "delete"
    /\ CommitParents(DeleteRow(ConnDb.modbase_parents, mod_base, unmod_parent))
    /\ pc' = "nest"
    /\ UNCHANGED <<pageVars, homeVars, hierVars>>

\* lines 577-580: the children of one relation, each child with a
\* non-empty entry in seen_children replaced by [child] + seen_children[child]
EmbedSeen(children, seen) ==
    [i \in 1..Len(children) |->
        IF children[i] \in DOMAIN seen /\ seen[children[i]] # <<>>
        THEN List(<<Str(children[i])>> \o seen[children[i]])
        ELSE Str(children[i])]

RECURSIVE NestRelations(_, _, _)
\* lines 568-586: the loop over the relations from index i on; the result
\* holds the relations with nested children and the dictionary seen_children
NestRelations(hier, seen, i) ==
    IF i > Len(hier) THEN [hier |-> hier, seen |-> seen]
    ELSE LET nested == EmbedSeen(hier[i].children, seen)
         IN NestRelations([hier EXCEPT ![i].children = nested],
                          SetItem(seen, hier[i].parent, nested), i + 1)

\* lines 568-598: nest the relations of the current root and add the
\* children of the last relation to the dictionary (IndexError on an empty
\* query result)
NestHierarchy ==
    /\ pc = "nest"
    /\ LET r == NestRelations(
                    [i \in 1..Len(modbase_hierarchy) |->
                        [parent |-> modbase_hierarchy[i].parent,
                         children |-> modbase_hierarchy[i].children]],
                    seen_children, 1)
           old == IF unmod_parent \in DOMAIN verified_full_hierarchy_dict
                  THEN verified_full_hierarchy_dict[unmod_parent] ELSE <<>>
       IN IF Len(modbase_hierarchy) = 0
          THEN /\ pc' = "IndexError"
               /\ UNCHANGED <<modbase_hierarchy, seen_children,
                              verified_full_hierarchy_dict>>
          ELSE /\ seen_children' = r.seen
               /\ modbase_hierarchy' = Last(r.hier)
               /\ verified_full_hierarchy_dict' =
                     SetItem(verified_full_hierarchy_dict, unmod_parent,
                             Append(old, List(Last(r.hier).children)))
               /\ pc' = "loop"
    /\ UNCHANGED <<origDb, copyDb, pageVars, homeVars, rootIDs, keysLeft,
                   unmod_parent, rootsLeft, mod_base>>

\* lines 602-609: every list of val with a single item becomes that item
FixSingle(val) ==
    [idx \in 1..Len(val) |->
        IF is_list(val[idx]) /\ Len(val[idx].elems) = 1
        THEN val[idx].elems[1] ELSE val[idx]]

\* the truth value of a Python string or list
Truthy(v) == IF v.list THEN v.elems # <<>> ELSE v.id # ""

\* lines 611-617: a value that holds a single list becomes that list
FixOnly(valL) ==
    IF Truthy(valL[1]) /\ is_list(valL[1]) /\ Len(valL) = 1
    THEN valL[1].elems ELSE valL

\* lines 600-619: both passes over the dictionary, and the return
FixNesting ==
    /\ pc = "loop"
    /\ rootsLeft = <<>>
    /\ keysLeft = {}
    /\ verified_full_hierarchy_dict' =
          [key \in DOMAIN verified_full_hierarchy_dict |->
              FixOnly(FixSingle(verified_full_hierarchy_dict[key]))]
    /\ unmod_parent' = ""
    /\ mod_base' = ""
    /\ pc' = "index"
    /\ UNCHANGED <<origDb, copyDb, pageVars, homeVars, rootIDs, keysLeft,
                   rootsLeft, modbase_hierarchy, seen_children>>
---------------------------------------------------------------------------
(* Databases, initial states and specifications.                           *)

Row(v, b, n, s, o) ==
    [verifiedstatus |-> v, baseid |-> b, chebiname |-> n, smiles |-> s,
     origin |-> o]

FirstIds(k) == {IdAt(i) : i \in 1..k}
FirstNames(k) == {AllNames[i] : i \in 1..k}

\* the acyclic contents of modbase_parents over the first k ids with at
\* most maxP rows: the "derived-from" hierarchy is a directed acyclic
\* graph, so the ids can be numbered with every parent before its children
ParentTables(k, maxP) ==
    {P \in SUBSET {e \in FirstIds(k) \X FirstIds(k) : IdIndex(e[2]) < IdIndex(e[1])} :
        Cardinality(P) <= maxP}

\* databases for the ontology: k modifications of adenine with their own
\* names, at most maxU of them unverified, and at most maxP parent rows
HierDbs(k, maxP, maxU) ==
    {[modbase |-> [m \in FirstIds(k) |->
                      Row(IF m \in U THEN 0 ELSE 1, "A", AllNames[IdIndex(m)],
                          "'C'", "none")],
      modbase_parents |-> P] :
        U \in {V \in SUBSET FirstIds(k) : Cardinality(V) <= maxU},
        P \in ParentTables(k, maxP)}

\* baseids of the databases of Spec: cytosine and guanine are handled as
\* adenine is
RunBases == {"A", "T", "U", "O"}

\* databases for the whole run: up to k modifications with their own names,
\* any status, a base of RunBases and any acyclic parent table
RunDbs(k) ==
    UNION {{[modbase |-> [m \in FirstIds(n) |->
                             Row(st[m], bs[m], AllNames[IdIndex(m)], "'C'", "none")],
             modbase_parents |-> P] :
               st \in [FirstIds(n) -> {0, 1}],
               bs \in [FirstIds(n) -> RunBases],
               P \in ParentTables(n, n * n)} : n \in 1..k}

\* databases for the pages: up to k modifications without parents, with
\* any status, name, SMILES and origin, and a base among three
PageDbs(k) ==
    UNION {{[modbase |-> rows, modbase_parents |-> {}] :
               rows \in [FirstIds(n) ->
                          {Row(v, b, nm, sm, o) :
                              v \in {0, 1}, b \in {"A", "T", "U"},
                              nm \in FirstNames(k), sm \in {"''", "'C'"},
                              o \in {"none", "synthetic"}}]} : n \in 1..k}

\* databases for the link lists: up to k modifications without parents,
\* with any status and name, a base among three, and a SMILES to render
LinkDbs(k) ==
    UNION {{[modbase |-> rows, modbase_parents |-> {}] :
               rows \in [FirstIds(n) ->
                          {Row(v, b, nm, "'C'", "none") :
                              v \in {0, 1}, b \in {"A", "T", "U"},
                              nm \in FirstNames(k)}]} : n \in 1..k}

\* the state the script is loaded in, for the database file db
StartOf(db) ==
    /\ pc = "start"
    /\ origDb = db
    /\ copyDb = NoFile
    /\ temp = EmptyDict
    /\ baseIdx = 0
    /\ cursor = {}
    /\ links = <<>>
    /\ blacklist = <<>>
    /\ homepage_links = EmptyDict
    /\ v_base_origins = EmptyDict
    /\ htmlFiles = EmptyDict
    /\ imageFiles = {}
    /\ stderr = <<>>
    /\ verifiedBases = EmptyDict
    /\ unverifiedBases = EmptyDict
    /\ conn = ""
    /\ rootIDs = EmptyDict
    /\ keysLeft = {}
    /\ unmod_parent = ""
    /\ rootsLeft = <<>>
    /\ mod_base = ""
    /\ modbase_hierarchy = <<>>
    /\ seen_children = EmptyDict
    /\ verified_full_hierarchy_dict = EmptyDict

Init == \E db \in RunDbs(MaxRows) : StartOf(db)

InitPages == \E db \in PageDbs(MaxPageRows) : StartOf(db)

InitLinks == \E db \in LinkDbs(MaxLinkRows) : StartOf(db)

RECURSIVE SetToSeq(_)
SetToSeq(S) ==
    IF S = {} THEN <<>>
    ELSE LET x == CHOOSE y \in S : TRUE IN <<x>> \o SetToSeq(S \ {x})

\* the links create_html_pages returns for a database whose modifications
\* have their own names: per BASE the sorted names of the verified and of
\* the other modifications
LinksOf(db) ==
    LET named(BASE, v) ==
            sorted(SetToSeq({db.modbase[m].chebiname :
                m \in {x \in DOMAIN db.modbase :
                        /\ db.modbase[x].baseid = BaseInitial(BASE)
                        /\ db.modbase[x].verifiedstatus = v}}))
    IN [key \in Range(BASES) \cup {UnverifiedKey(b) : b \in Range(BASES)} |->
          IF key \in Range(BASES) THEN named(key, 1)
          ELSE named(CHOOSE b \in Range(BASES) : UnverifiedKey(b) = key, 0)]

\* the state in which create_homepage calls
\* cons_nested_verified_dict_modbase_hierarchy, for a database db of HierDbs
\* (every page and image written, no origin recorded)
AtHierarchy(db) ==
    /\ pc = "roots"
    /\ origDb = db
    /\ copyDb = db
    /\ temp = JoinedRows(db)
    /\ baseIdx = Len(BASES) + 1
    /\ cursor = {}
    /\ links = LinksOf(db)["Other"]
    /\ blacklist = LinksOf(db)["UnverifiedOther"]
    /\ homepage_links = LinksOf(db)
    /\ v_base_origins = EmptyDict
    /\ htmlFiles = [n \in {db.modbase[m].chebiname : m \in DOMAIN db.modbase} |->
                      [ChebiId |-> CHOOSE m \in DOMAIN db.modbase :
                                      db.modbase[m].chebiname = n,
                       Image |-> TRUE]]
    /\ imageFiles = {db.modbase[m].chebiname : m \in DOMAIN db.modbase}
    /\ stderr = <<>>
    /\ verifiedBases = FoldUracil(LinksByBase(LinksOf(db), FALSE))
    /\ unverifiedBases = LinksByBase(LinksOf(db), TRUE)
    /\ conn = HomepageDatabase
    /\ rootIDs = EmptyDict
    /\ keysLeft = {}
    /\ unmod_parent = ""
    /\ rootsLeft = <<>>
    /\ mod_base = ""
    /\ modbase_hierarchy = <<>>
    /\ seen_children = EmptyDict
    /\ verified_full_hierarchy_dict = EmptyDict

InitHier == \E db \in HierDbs(MaxMods, MaxParents, MaxUnverified) : AtHierarchy(db)

InitDag == \E db \in HierDbs(DagMods, DagParents, 0) : AtHierarchy(db)

\* the steps of cons_nested_verified_dict_modbase_hierarchy
NextHier ==
    \/ RootQuery
    \/ InsertParent
    \/ QueryHierarchy
    \/ DeleteParent
    \/ NestHierarchy
    \/ FixNesting

\* the steps of the script
Next ==
    \/ CopyDatabase
    \/ AttachAndJoin
    \/ SelectMods
    \/ CreatePage
    \/ FinishBase
    \/ ReturnPages
    \/ ConnectAndFold
    \/ NextHier
    \/ WriteIndex
    \/ ExitHandler

\* a run of the script on a database of RunDbs
Spec == Init /\ [][Next]_vars

\* a run of the script on a database of PageDbs
SpecPages == InitPages /\ [][Next]_vars

\* cons_nested_verified_dict_modbase_hierarchy on a database of HierDbs
SpecHier == InitHier /\ [][NextHier]_vars

\* the same on the larger, all verified databases
SpecDag == InitDag /\ [][NextHier]_vars

\* a run of the script on a database of LinkDbs
SpecLinks == InitLinks /\ [][Next]_vars

---------------------------------------------------------------------------
(* Properties of cons_nested_verified_dict_modbase_hierarchy.              *)

\* every id that occurs in the dictionary, at any nesting level
EmittedIds ==
    UNION {IdsOf(verified_full_hierarchy_dict[key]) :
             key \in DOMAIN verified_full_hierarchy_dict}

\* C1: every id that occurs at any nesting level of the dictionary under
\* construction or returned has verifiedstatus=1 in modbase; an unverified
\* modification between a verified root and a verified descendant is never
\* emitted.
OnlyVerifiedEmitted == EmittedIds \subseteq VerifiedIds(origDb)

\* C1, its case: the function has returned for a database in which an
\* unverified modification u lies between a verified root r and a verified
\* modification d, and r and d are both in the dictionary.
UnverifiedIntermediateSkipped ==
    /\ pc = "index"
    /\ \E r, u, d \in DOMAIN origDb.modbase :
         /\ {r, d} \subseteq VerifiedIds(origDb)
         /\ u \notin VerifiedIds(origDb)
         /\ r \in RootIds(origDb)
         /\ {<<u, r>>, <<d, u>>} \subseteq origDb.modbase_parents
         /\ {r, d} \subseteq EmittedIds

\* C2: once the function has returned, every verified modification whose
\* unmodified base is a canonical base is in the dictionary, as a root or
\* nested below a verified ancestor.
NoVerifiedModificationDropped ==
    pc = "index" =>
        {m \in VerifiedIds(origDb) :
            origDb.modbase[m].baseid \in {"A", "C", "G", "T", "U"}}
          \subseteq EmittedIds

\* C3: no root fails the assertion on the first letter of its key, and the
\* keys of the dictionary are names of the four canonical bases only.
OnlyCanonicalKeys ==
    /\ pc # "AssertionError"
    /\ DOMAIN rootIDs \subseteq {"adenine", "cytosine", "guanine", "thymine"}
    /\ DOMAIN verified_full_hierarchy_dict
         \subseteq {"adenine", "cytosine", "guanine", "thymine"}

\* C3, the part that holds: a verified root of uracil is filed under
\* 'thymine' and no key 'uracil' exists.
UracilFiledUnderThymine ==
    /\ pc = "index"
    /\ \E r \in RootIds(origDb) :
         /\ origDb.modbase[r].baseid = "U"
         /\ "thymine" \in DOMAIN verified_full_hierarchy_dict
         /\ r \in IdsOf(verified_full_hierarchy_dict["thymine"])
         /\ "uracil" \notin DOMAIN verified_full_hierarchy_dict

\* the depths of the children of g in the query just made: one more than
\* each depth at which g is a row of base_children, and 0 for the empty
\* string, which stands above the queried base's own row
QueriedDepths(g) ==
    IF g = "" THEN {0}
    ELSE {d + 1 : d \in DepthsOf(base_children(ConnDb.modbase_parents,
                                               unmod_parent), g)}

\* g lies deeper below the queried base than h, on whichever paths the two
\* are reached
LiesDeeper(g, h) ==
    /\ QueriedDepths(g) # {}
    /\ QueriedDepths(h) # {}
    /\ \A a \in QueriedDepths(g), b \in QueriedDepths(h) : a > b

VerifiedParents(db) ==
    {q[2] : q \in {e \in db.modbase_parents : e[1] \in VerifiedIds(db)}}

RECURSIVE BareIds(_)
\* the ids that stand in a child list as a plain string, at any level; an
\* embedded child is the list of its id followed by its children
BareIds(children) ==
    UNION {IF is_list(children[i])
           THEN BareIds(Tail(children[i].elems))
           ELSE {children[i].id} : i \in 1..Len(children)}

\* C5: in the nesting built for a root, each occurrence of a modification
\* with a verified child is the list of its id followed by its nested
\* children; none occurs as a plain string.  Stated of the dictionary before
\* the unwrapping passes, whose values are the child lists of the root
\* groups.
EveryParentEmbedded ==
    pc \in {"loop", "query", "delete", "nest"} =>
        \A key \in DOMAIN verified_full_hierarchy_dict :
            \A i \in 1..Len(verified_full_hierarchy_dict[key]) :
                BareIds(verified_full_hierarchy_dict[key][i].elems)
                    \cap VerifiedParents(origDb) = {}

\* the ids a returned value presents as roots: a string is a childless
\* root, and the first element of a list is the parent of the rest
PresentedRoots(val) ==
    {IF is_list(val[i]) THEN val[i].elems[1].id ELSE val[i].id :
        i \in 1..Len(val)}

\* C6: the value returned for a base determines the hierarchy: read with
\* the first element of every list as the parent of the rest, its top level
\* presents the roots of the base and nothing else.
ValueDeterminesRoots ==
    pc = "index" =>
        \A key \in DOMAIN verified_full_hierarchy_dict :
            PresentedRoots(verified_full_hierarchy_dict[key]) = Range(rootIDs[key])

---------------------------------------------------------------------------
(* Properties of the run.                                                  *)

\* C7: the source database file is read-only: no step changes its content,
\* and a connection is opened only on the copy, once the copy exists.
SourceDatabaseReadOnly ==
    [][/\ origDb' = origDb
       /\ conn' # conn => (conn' = DATABASE_FILE_COPY /\ copyDb # NoFile)]_vars

\* C7, its case: the INSERT of a root has been committed, and the content
\* of the copy differs from the content of the source.
CopyWritten ==
    /\ pc = "query"
    /\ conn = DATABASE_FILE_COPY
    /\ copyDb.modbase_parents # origDb.modbase_parents

\* C8: after a complete run every modification of the database has its
\* page, no page having been overwritten by the page of another
\* modification, and index.html is written.
OnePagePerModification ==
    pc = "done" =>
        /\ "index" \in DOMAIN htmlFiles
        /\ \A m \in DOMAIN origDb.modbase :
              \E page \in DOMAIN htmlFiles \ {"index"} :
                  htmlFiles[page].ChebiId = m

\* C9: a missing image is not fatal: no exception stops the run in
\* render_image, and when create_html_pages returns every page written
\* without an image has its warning on stderr.
MissingImageNotFatal ==
    /\ pc # "ValueError"
    /\ pc = "homepage" =>
          \A page \in DOMAIN htmlFiles :
              ~htmlFiles[page].Image => page \in Range(stderr)

\* C10: every key of v_base_origins is the ChEBI id of a verified
\* modification.
OriginsOfVerifiedOnly == DOMAIN v_base_origins \subseteq VerifiedIds(origDb)
\* C11: each invocation runs to completion: no exception stops the run, a
\* process that has exited has written index.html, and index.html is
\* written only after every page of the joined table.
RunsToCompletion ==
    /\ pc \notin Exceptions
    /\ pc = "exited" => "index" \in DOMAIN htmlFiles
    /\ "index" \in DOMAIN htmlFiles =>
          \A m \in DOMAIN temp : temp[m].chebiname \in DOMAIN htmlFiles
\* C12: the row linking a root to its unmodified base is temporary: when
\* get_modbase_hierarchy is called, modbase_parents holds its original rows
\* and the one row (current root, its unmodified base), so the depth-0 level
\* of the query holds the current root only; when the function has
\* returned, modbase_parents holds its original rows again.
SyntheticLinkTemporary ==
    /\ pc = "query" =>
          /\ <<mod_base, unmod_parent>> \notin origDb.modbase_parents
          /\ ConnDb.modbase_parents =
                origDb.modbase_parents \cup {<<mod_base, unmod_parent>>}
          /\ \A n \in NamesOf(ConnDb.modbase_parents) :
                AnchorRows(ConnDb.modbase_parents, unmod_parent)[n] =
                    IF n = mod_base THEN 1 ELSE 0
    /\ pc = "index" => ConnDb.modbase_parents = origDb.modbase_parents

\* C12, its case: the query is called for a further root of a base, after
\* the row of an earlier root was inserted and deleted.
SecondRootQueried ==
    /\ pc = "query"
    /\ unmod_parent \in DOMAIN verified_full_hierarchy_dict
    /\ origDb.modbase_parents # {}
\* the roots filed under a key of verified_root_base_IDs_by_unmod_base
FiledRoots(key) == IF key \in DOMAIN rootIDs THEN Range(rootIDs[key]) ELSE {}

\* the modifications with verifiedstatus 1 none of whose parents has
\* verifiedstatus 1
VerifiedWithoutVerifiedParent ==
    {m \in DOMAIN origDb.modbase :
        /\ origDb.modbase[m].verifiedstatus = 1
        /\ \A q \in origDb.modbase_parents :
              q[1] = m => origDb.modbase[q[2]].verifiedstatus # 1}

Occurrences(s, x) == Cardinality({i \in 1..Len(s) : s[i] = x})

\* the modifications of base B with the name n whose mod[5] is true
\* (verified) or false
ModsNamed(B, n, verified) ==
    {m \in DOMAIN origDb.modbase :
        /\ origDb.modbase[m].baseid = BaseInitial(B)
        /\ origDb.modbase[m].chebiname = n
        /\ (origDb.modbase[m].verifiedstatus # 0) = verified}

\* C14: when create_html_pages returns, both keys exist for every base of
\* BASES, and the link of each modification of the base stands once in the
\* list of the base if the modification is verified and once in the list
\* of 'Unverified' + base otherwise, and nowhere else.
LinksPartitioned ==
    pc = "homepage" =>
        \A B \in Range(BASES) :
            /\ {B, UnverifiedKey(B)} \subseteq DOMAIN homepage_links
            /\ \A n \in Range(AllNames) :
                  /\ Occurrences(homepage_links[B], n)
                        = Cardinality(ModsNamed(B, n, TRUE))
                  /\ Occurrences(homepage_links[UnverifiedKey(B)], n)
                        = Cardinality(ModsNamed(B, n, FALSE))

\* C14, its case: create_html_pages returns with a verified and an
\* unverified link for one base, while other bases have no modification.
BothListsFilled ==
    /\ pc = "homepage"
    /\ \E B \in Range(BASES) :
          /\ homepage_links[B] # <<>>
          /\ homepage_links[UnverifiedKey(B)] # <<>>
\* C15: on the homepage the list of 'Thymine' is the verified Thymine links
\* followed by the verified Uracil links, the verified dictionary has no
\* key 'Uracil', the list of every other base is the one returned by
\* create_html_pages, and the unverified dictionary has an entry for every
\* base of BASES, Uracil included.
UracilFoldedIntoThymine ==
    conn # "" =>
        /\ DOMAIN verifiedBases = Range(BASES) \ {"Uracil"}
        /\ verifiedBases["Thymine"] =
              homepage_links["Thymine"] \o homepage_links["Uracil"]
        /\ \A base \in Range(BASES) \ {"Thymine", "Uracil"} :
              verifiedBases[base] = homepage_links[base]
        /\ DOMAIN unverifiedBases = Range(BASES)
        /\ \A base \in Range(BASES) :
              unverifiedBases[base] = homepage_links[UnverifiedKey(base)]

\* C15, its case: index.html is written for a database with a verified
\* modification of thymine and one of uracil.
ThymineAndUracilOnHomepage ==
    /\ pc = "done"
    /\ homepage_links["Thymine"] # <<>>
    /\ homepage_links["Uracil"] # <<>>

\* the place of a name in the alphabet when case is ignored
AlphabetPlace(name) ==
    CASE name \in {"a", "A"} -> 1 [] name \in {"b", "B"} -> 2
      [] name \in {"c", "C"} -> 3 [] name \in {"d", "D"} -> 4
      [] name \in {"e", "E"} -> 5 [] name \in {"f", "F"} -> 6
      [] name \in {"g", "G"} -> 7 [] name \in {"h", "H"} -> 8

\* C16: each list of homepage_links, verified or unverified, is in
\* ascending order of the names with case ignored, in whatever order the
\* rows of a base were fetched.
LinkListsSorted ==
    \A key \in DOMAIN homepage_links :
        \A i, j \in 1..Len(homepage_links[key]) :
            i < j => AlphabetPlace(homepage_links[key][i])
                       <= AlphabetPlace(homepage_links[key][j])

\* C16, its case: create_html_pages returns a list of two links whose
\* names differ in case and in letter.
TwoNamesInOneList ==
    /\ pc = "homepage"
    /\ \E key \in DOMAIN homepage_links :
          /\ Len(homepage_links[key]) >= 2
          /\ homepage_links[key][1] # homepage_links[key][2]
====
